---------------------------- MODULE Spec2Model ----------------------------
(***************************************************************************)
(* A model of prepare_molecules.py: the similarity matcher                 *)
(* (find_similar_molecules), the representative selector                   *)
(* (select_representative_molecules), the level builder                    *)
(* (prepare_game_dataset) and the run as a whole (main).                   *)
(*                                                                         *)
(* A molecule is the record parse_mol2_file returns, reduced to the fields *)
(* the selection and pairing logic reads: file_path, file_name and         *)
(* atom_count (name and the element sub-counts are carried along by the    *)
(* code and never read by it).  A file path is the pair <<directory, file  *)
(* name>> that os.path.join builds; os.path.basename takes it apart again. *)
(***************************************************************************)
EXTENDS Integers, Sequences, FiniteSets, TLC

(***************************************************************************)
(* Bounds of the model.                                                    *)
(***************************************************************************)
\* Longest candidate pool handed to the matcher.
MaxPool == 4
\* Longest working set handed to the level builder.
MaxMols == 6
\* Largest level cap (the role of NUM_MOLECULES) the builder is run with.
MaxK == 3
\* Longest input and largest count handed to the representative selector.
MaxSel == 4
\* Most files in the source directory of a whole run.
MaxFiles == 6

(***************************************************************************)
(* Program constants.                                                      *)
(***************************************************************************)
PRELIMINARY_DB_PATH == "preliminaryDB"
TARGET_DB_PATH == "DB"
\* SIMILARITY_THRESHOLD = 0.2, as the fraction <<1, 5>>.
SIMILARITY_THRESHOLD == <<1, 5>>
\* NUM_MOLECULES = 120, the cap on levels of a whole run.
NUM_MOLECULES == 120
\* min_atoms = 5, the default floor of main and of every function.
DEFAULT_MIN_ATOMS == 5
\* The escalation loop runs while threshold_multiplier <= 5.
MAX_MULTIPLIER == 5

(***************************************************************************)
(* Values the inputs are drawn from.                                       *)
(***************************************************************************)
\* Thresholds the matcher is tried with: 0, 0.2 and 0.5.
Thresholds == {<<0, 1>>, <<1, 5>>, <<1, 2>>}
\* Atom counts of the matcher's pools: around a target of 10 they lie in the
\* base window (10), in the windows of 1.5 (13) and 2.5 (5), and in none (21).
MatchAtomCounts == {5, 10, 13, 21}
\* Atom counts of the builder's working sets.
BuildAtomCounts == {5, 6, 50}
\* Floors the builder and the selector are run with (5 is the default).
Floors == {5, 6}
\* The working set of the specification's scenario.
ScenarioAtomCounts == <<5, 5, 6, 6, 7, 50, 52, 55>>
\* Command-line arguments a run is started with, and those int() accepts.
Arguments == {"6", "abc"}
IntegerArguments == {"6"}
\* Entries of the source directory: a file of another suffix; a .mol2 file
\* that cannot be read; .mol2 files declaring no atom count (0), 5 and 7.
DirectoryEntries ==
    {[mol2 |-> FALSE, readable |-> TRUE, atoms |-> 0],
     [mol2 |-> TRUE, readable |-> FALSE, atoms |-> 0]}
    \cup {[mol2 |-> TRUE, readable |-> TRUE, atoms |-> a] : a \in {0, 5, 7}}
\* Atom counts of the selector's inputs.
SelAtomCounts == {5, 6, 7}

VARIABLES
    \* find_similar_molecules
    target, all_molecules, similarity_threshold, exclude,
    similar_candidates, threshold_multiplier, tried, similar_mols, fpc,
    \* prepare_game_dataset
    input_molecules, min_atoms, num_molecules, molecules, sorted_molecules,
    idx, used_molecules_paths, game_levels, skipped, bpc,
    \* select_representative_molecules
    sel_input, num_to_select, sel_min_atoms, bins, atom_counts, sweep, pos,
    selected_molecules, used_file_paths, spc,
    \* main
    argv, floor, dir_exists, listing, working_set, levels, to_copy,
    manifest, store_ready, copied, copy_failed, exit_status, mpc

fvars == <<target, all_molecules, similarity_threshold, exclude,
           similar_candidates, threshold_multiplier, tried, similar_mols, fpc>>
bvars == <<input_molecules, min_atoms, num_molecules, molecules,
           sorted_molecules, idx, used_molecules_paths, game_levels, skipped, bpc>>
svars == <<sel_input, num_to_select, sel_min_atoms, bins, atom_counts, sweep,
           pos, selected_molecules, used_file_paths, spc>>
mvars == <<argv, floor, dir_exists, listing, working_set, levels, to_copy,
           manifest, store_ready, copied, copy_failed, exit_status, mpc>>
vars == <<fvars, bvars, svars, mvars>>

(***************************************************************************)
(* Helpers.                                                                *)
(***************************************************************************)
Range(s) == {s[i] : i \in 1..Len(s)}

Min(a, b) == IF a <= b THEN a ELSE b

Abs(x) == IF x < 0 THEN -x ELSE x

\* os.path.join(db_path, file_name)
Join(dir, file_name) == <<dir, file_name>>

\* os.path.basename(file_path)
Basename(file_path) == file_path[Len(file_path)]

\* The record parse_mol2_file returns for file `file_name` of directory `dir`.
Molecule(dir, file_name, atom_count) ==
    [file_path |-> Join(dir, file_name), file_name |-> file_name,
     atom_count |-> atom_count]

\* A directory's molecules, file i of the listing having atom count acs[i].
MoleculesOf(acs) ==
    [i \in 1..Len(acs) |-> Molecule(PRELIMINARY_DB_PATH, i, acs[i])]

\* Sequences over S of length lo..hi.
SeqsOf(S, lo, hi) == UNION {[1..n -> S] : n \in lo..hi}

RECURSIVE StableSort(_, _)
\* A sort that is not stable: among equal keys the later entry comes first.
MutStableSort(s, key) ==
    IF s = <<>> THEN <<>>
    ELSE LET h == Head(s)
             rest == StableSort(Tail(s), key)
         IN SelectSeq(rest, LAMBDA m : key[m] <= key[h]) \o <<h>>
            \o SelectSeq(rest, LAMBDA m : key[m] > key[h])

\* list.sort(key=...) / sorted(..., key=...): a stable sort, ascending in key[m].
StableSort(s, key) ==
    IF s = <<>> THEN <<>>
    ELSE LET h == Head(s)
             rest == StableSort(Tail(s), key)
         IN SelectSeq(rest, LAMBDA m : key[m] < key[h]) \o <<h>>
            \o SelectSeq(rest, LAMBDA m : key[m] >= key[h])

\* key=lambda x: x['atom_count']
AtomCountKey(s) == [m \in Range(s) |-> m.atom_count]

\* key=lambda x: abs(x['atom_count'] - target_atom_count)
DiffKey(s, target_atom_count) ==
    [m \in Range(s) |-> Abs(m.atom_count - target_atom_count)]

\* s[:n]
Take(s, n) == SubSeq(s, 1, Min(n, Len(s)))

\* [m for m in molecules if m['atom_count'] >= min_atoms]
AboveFloor(mols, m_atoms) == SelectSeq(mols, LAMBDA m : m.atom_count >= m_atoms)


(***************************************************************************)
(* find_similar_molecules.                                                 *)
(*                                                                         *)
(* The threshold is a fraction <<num, den>> and the multiplier is counted  *)
(* in halves (3 is 1.5, 10 is 5.0), so that                                *)
(*   abs(diff) <= target_atom_count * similarity_threshold * multiplier    *)
(* is the integer comparison 2 * den * abs(diff) <= atom_count * num * k.  *)
(* For the thresholds used here the float product and the exact one admit  *)
(* the same integer differences.                                           *)
(***************************************************************************)
\* A filter that forgets to drop the target itself.
MutEligible(mol, tgt, excl) == mol.file_path \notin excl

\* (mol['file_path'] != target['file_path']) and (mol['file_path'] not in exclude)
Eligible(mol, tgt, excl) ==
    /\ mol.file_path # tgt.file_path
    /\ mol.file_path \notin excl

\* A window with its comparison reversed.
MutWithinWindow(mol, tgt, thr, k) ==
    2 * thr[2] * Abs(mol.atom_count - tgt.atom_count) >= tgt.atom_count * thr[1] * k

\* abs(mol['atom_count'] - target_atom_count) <= max_diff, at multiplier k / 2
WithinWindow(mol, tgt, thr, k) ==
    2 * thr[2] * Abs(mol.atom_count - tgt.atom_count) <= tgt.atom_count * thr[1] * k

\* The list comprehension of the base pass (k = 2) and of each escalation step.
Candidates(all, tgt, thr, k, excl) ==
    SelectSeq(all, LAMBDA mol : WithinWindow(mol, tgt, thr, k) /\ Eligible(mol, tgt, excl))

\* The list comprehension of the fallback pass.
AllEligible(all, tgt, excl) ==
    SelectSeq(all, LAMBDA mol : Eligible(mol, tgt, excl))

\* A fallback that slices [:1] instead of [:2].
MutClosestTwo(all, tgt, excl) ==
    LET candidates == AllEligible(all, tgt, excl)
    IN Take(StableSort(candidates, DiffKey(candidates, tgt.atom_count)), 1)

\* candidates.sort(key=...); similar_candidates = candidates[:2]
ClosestTwo(all, tgt, excl) ==
    LET candidates == AllEligible(all, tgt, excl)
    IN Take(StableSort(candidates, DiffKey(candidates, tgt.atom_count)), 2)

\* similar_candidates.sort(key=...); return similar_candidates[:2]
MostSimilar(cands, tgt) ==
    Take(StableSort(cands, DiffKey(cands, tgt.atom_count)), 2)

\* A loop that stops before the multiplier 5.0 (< instead of <=).
MutEscalating(cands, k) == Len(cands) < 2 /\ k < 2 * MAX_MULTIPLIER

\* while len(similar_candidates) < 2 and threshold_multiplier <= 5
Escalating(cands, k) == Len(cands) < 2 /\ k <= 2 * MAX_MULTIPLIER

\* The escalation loop, from multiplier k / 2 on.
RECURSIVE Escalate(_, _, _, _, _, _)
Escalate(cands, k, all, tgt, thr, excl) ==
    IF Escalating(cands, k)
    THEN Escalate(Candidates(all, tgt, thr, k, excl), k + 1, all, tgt, thr, excl)
    ELSE cands

\* The function as a whole, as prepare_game_dataset calls it.
find_similar_molecules(tgt, all, thr, excl) ==
    LET base == Candidates(all, tgt, thr, 2, excl)
        escalated == IF Len(base) < 2
                     THEN Escalate(base, 3, all, tgt, thr, excl)
                     ELSE base
        final == IF Len(escalated) < 2
                 THEN ClosestTwo(all, tgt, excl)
                 ELSE escalated
    IN MostSimilar(final, tgt)

(***************************************************************************)
(* The groups of variables a specification does not use stay at rest.      *)
(***************************************************************************)
MatcherIdle ==
    /\ target = <<>> /\ all_molecules = <<>> /\ similarity_threshold = <<>>
    /\ exclude = {} /\ similar_candidates = <<>> /\ threshold_multiplier = 0
    /\ tried = <<>> /\ similar_mols = <<>> /\ fpc = "idle"

BuilderIdle ==
    /\ input_molecules = <<>> /\ molecules = <<>> /\ min_atoms = 0 /\ num_molecules = 0
    /\ sorted_molecules = <<>> /\ idx = 0 /\ used_molecules_paths = {}
    /\ game_levels = <<>> /\ skipped = {} /\ bpc = "idle"

SelectorIdle ==
    /\ sel_input = <<>> /\ num_to_select = 0 /\ sel_min_atoms = 0
    /\ bins = <<>> /\ atom_counts = <<>> /\ sweep = <<>> /\ pos = 0
    /\ selected_molecules = <<>> /\ used_file_paths = {} /\ spc = "idle"

MainIdle ==
    /\ argv = <<>> /\ floor = 0 /\ dir_exists = FALSE /\ listing = <<>>
    /\ working_set = <<>> /\ levels = <<>> /\ to_copy = <<>>
    /\ manifest = [state |-> "none"] /\ store_ready = FALSE /\ copied = {}
    /\ copy_failed = FALSE /\ exit_status = -1 /\ mpc = "idle"

(***************************************************************************)
(* find_similar_molecules, pass by pass.  `tried` records the multipliers  *)
(* (in halves) whose window has been computed so far.                      *)
(***************************************************************************)
InitMatch ==
    /\ all_molecules \in {MoleculesOf(acs) : acs \in SeqsOf(MatchAtomCounts, 1, MaxPool)}
    /\ target \in Range(all_molecules)
    /\ similarity_threshold \in Thresholds
    /\ exclude \in SUBSET ({m.file_path : m \in Range(all_molecules)} \ {target.file_path})
    /\ similar_candidates = <<>>
    /\ threshold_multiplier = 0
    /\ tried = <<>>
    /\ similar_mols = <<>>
    /\ fpc = "base"
    /\ BuilderIdle /\ SelectorIdle /\ MainIdle

\* Lines 180-193: the base window, and the test that opens the escalation.
BasePass ==
    /\ fpc = "base"
    /\ similar_candidates' =
           Candidates(all_molecules, target, similarity_threshold, 2, exclude)
    /\ tried' = <<2>>
    /\ IF Len(similar_candidates') < 2
       THEN threshold_multiplier' = 3 /\ fpc' = "escalate"
       ELSE threshold_multiplier' = threshold_multiplier /\ fpc' = "fallback"
    /\ UNCHANGED <<target, all_molecules, similarity_threshold, exclude, similar_mols>>
    /\ UNCHANGED <<bvars, svars, mvars>>

\* Lines 194-202: one turn of the while loop.
EscalateStep ==
    /\ fpc = "escalate"
    /\ Escalating(similar_candidates, threshold_multiplier)
    /\ similar_candidates' =
           Candidates(all_molecules, target, similarity_threshold,
                      threshold_multiplier, exclude)
    /\ tried' = Append(tried, threshold_multiplier)
    /\ threshold_multiplier' = threshold_multiplier + 1
    /\ UNCHANGED <<target, all_molecules, similarity_threshold, exclude, similar_mols, fpc>>
    /\ UNCHANGED <<bvars, svars, mvars>>

\* Line 194: the while condition fails.
EscalateExit ==
    /\ fpc = "escalate"
    /\ ~Escalating(similar_candidates, threshold_multiplier)
    /\ fpc' = "fallback"
    /\ UNCHANGED <<target, all_molecules, similarity_threshold, exclude,
                   similar_candidates, threshold_multiplier, tried, similar_mols>>
    /\ UNCHANGED <<bvars, svars, mvars>>

\* Lines 205-212: the threshold-free fallback.
FallbackPass ==
    /\ fpc = "fallback"
    /\ Len(similar_candidates) < 2
    /\ similar_candidates' = ClosestTwo(all_molecules, target, exclude)
    /\ tried' = Append(tried, 0)
    /\ fpc' = "final"
    /\ UNCHANGED <<target, all_molecules, similarity_threshold, exclude,
                   threshold_multiplier, similar_mols>>
    /\ UNCHANGED <<bvars, svars, mvars>>

\* Line 205: enough candidates, no fallback.
SkipFallback ==
    /\ fpc = "fallback"
    /\ Len(similar_candidates) >= 2
    /\ fpc' = "final"
    /\ UNCHANGED <<target, all_molecules, similarity_threshold, exclude,
                   similar_candidates, threshold_multiplier, tried, similar_mols>>
    /\ UNCHANGED <<bvars, svars, mvars>>

\* Lines 215-216: the final sort and the slice that is returned.
FinalSort ==
    /\ fpc = "final"
    /\ similar_candidates' =
           StableSort(similar_candidates, DiffKey(similar_candidates, target.atom_count))
    /\ similar_mols' = MostSimilar(similar_candidates, target)
    /\ fpc' = "done"
    /\ UNCHANGED <<target, all_molecules, similarity_threshold, exclude,
                   threshold_multiplier, tried>>
    /\ UNCHANGED <<bvars, svars, mvars>>

NextMatch ==
    \/ BasePass
    \/ EscalateStep
    \/ EscalateExit
    \/ FallbackPass
    \/ SkipFallback
    \/ FinalSort

SpecMatch == InitMatch /\ [][NextMatch]_vars

\* The step-by-step run and the function as a whole return the same list.
MatchAgrees ==
    fpc = "done" =>
        similar_mols = find_similar_molecules(target, all_molecules,
                                              similarity_threshold, exclude)

(***************************************************************************)
(* Claims about find_similar_molecules.                                    *)
(***************************************************************************)
\* Absolute atom-count difference between pool entry i and the target.
DiffAt(i) == Abs(all_molecules[i].atom_count - target.atom_count)

\* Positions of the pool that are neither the target nor excluded.
EligiblePositions ==
    {i \in 1..Len(all_molecules) :
        /\ all_molecules[i].file_path # target.file_path
        /\ all_molecules[i].file_path \notin exclude}

\* Eligible positions whose difference lies in the window of multiplier k / 2.
WindowPositions(k) ==
    {i \in EligiblePositions :
        2 * similarity_threshold[2] * DiffAt(i)
            <= target.atom_count * similarity_threshold[1] * k}

\* C2: the returned list has at most 2 entries, is sorted by ascending
\* absolute atom-count difference from the target, holds neither the target
\* nor an excluded molecule, and is shorter than 2 only when fewer than 2
\* molecules of the pool are eligible.
C2_MatcherResult ==
    fpc = "done" =>
        /\ Len(similar_mols) <= 2
        /\ \A i \in 1..Len(similar_mols), j \in 1..Len(similar_mols) :
               i < j => Abs(similar_mols[i].atom_count - target.atom_count)
                            <= Abs(similar_mols[j].atom_count - target.atom_count)
        /\ \A i \in 1..Len(similar_mols) :
               /\ similar_mols[i].file_path # target.file_path
               /\ similar_mols[i].file_path \notin exclude
               /\ similar_mols[i] \in Range(all_molecules)
        /\ Len(similar_mols) < 2 => Cardinality(EligiblePositions) < 2

\* A run that excluded a molecule and returned two molecules at different
\* distances from the target.
C2_Witness ==
    /\ fpc = "done"
    /\ exclude # {}
    /\ Len(similar_mols) = 2
    /\ Abs(similar_mols[1].atom_count - target.atom_count)
           < Abs(similar_mols[2].atom_count - target.atom_count)

\* C4: the windows are computed in the order base (multiplier 1), 1.5, 2.0,
\* ..., 5.0; a further window is computed only while the one before held
\* fewer than 2 candidates; the fallback runs only after the window of 5.0
\* held fewer than 2; the passes end either on a window with at least 2
\* candidates or in the fallback; and for atom count 10 at threshold 0.2 the
\* window of multiplier k / 2 admits exactly the differences up to k
\* (2, 3, ..., 10).
C4_PassOrder ==
    LET windows == SelectSeq(tried, LAMBDA k : k # 0)
        fellBack == \E i \in 1..Len(tried) : tried[i] = 0
    IN /\ \A i \in 1..Len(windows) : windows[i] = i + 1
       /\ Len(windows) <= 2 * MAX_MULTIPLIER - 1
       /\ \A i \in 1..Len(windows) - 1 :
              Cardinality(WindowPositions(windows[i])) < 2
       /\ fellBack =>
              /\ tried = <<2, 3, 4, 5, 6, 7, 8, 9, 10, 0>>
              /\ Cardinality(WindowPositions(2 * MAX_MULTIPLIER)) < 2
       /\ (fpc \in {"final", "done"} /\ ~fellBack) =>
              Cardinality(WindowPositions(windows[Len(windows)])) >= 2
       /\ (fpc \in {"escalate", "fallback"} /\ ~fellBack) =>
              /\ similar_candidates =
                     SelectSeq(all_molecules, LAMBDA m :
                         /\ 2 * similarity_threshold[2] * Abs(m.atom_count - target.atom_count)
                                <= target.atom_count * similarity_threshold[1]
                                       * windows[Len(windows)]
                         /\ m.file_path # target.file_path
                         /\ m.file_path \notin exclude)
              /\ (target.atom_count = 10 /\ similarity_threshold = <<1, 5>>) =>
                     similar_candidates =
                         SelectSeq(all_molecules, LAMBDA m :
                             /\ Abs(m.atom_count - 10) <= windows[Len(windows)]
                             /\ m.file_path # target.file_path
                             /\ m.file_path \notin exclude)

\* A target of 10 atoms at threshold 0.2 whose search went through every
\* window up to 5.0, found one candidate there, and ended in the fallback.
C4_Witness ==
    /\ fpc = "done"
    /\ target.atom_count = 10
    /\ similarity_threshold = <<1, 5>>
    /\ tried = <<2, 3, 4, 5, 6, 7, 8, 9, 10, 0>>
    /\ Cardinality(WindowPositions(2 * MAX_MULTIPLIER)) = 1
    /\ Len(similar_mols) = 2

\* Position i comes before position j in the pool stably sorted by difference.
Before(i, j) == DiffAt(i) < DiffAt(j) \/ (DiffAt(i) = DiffAt(j) /\ i < j)

\* The first two eligible molecules in that order.
ClosestEligible ==
    [r \in 1..Min(2, Cardinality(EligiblePositions)) |->
        all_molecules[CHOOSE i \in EligiblePositions :
            Cardinality({j \in EligiblePositions : Before(j, i)}) = r - 1]]

\* C9: whatever the threshold and whichever pass produced it, the returned
\* list is the first two entries of the eligible pool stably sorted by
\* absolute atom-count difference (ties in pool order).
C9_ThresholdIndependent ==
    fpc = "done" => similar_mols = ClosestEligible

\* A result of two molecules tied in difference, found by a window of the
\* escalation pass, with a third eligible molecule in the pool.
C9_Witness ==
    /\ fpc = "done"
    /\ Len(similar_mols) = 2
    /\ Abs(similar_mols[1].atom_count - target.atom_count)
           = Abs(similar_mols[2].atom_count - target.atom_count)
    /\ similar_mols[1].atom_count # similar_mols[2].atom_count
    /\ Len(tried) > 1
    /\ tried[Len(tried)] # 0

(***************************************************************************)
(* prepare_game_dataset.                                                   *)
(*                                                                         *)
(* NUM_MOLECULES is 120 in the source; the model runs the builder with     *)
(* every cap num_molecules in 1..MaxK, so that the cap is reached.         *)
(***************************************************************************)
\* {'name': ..., 'file': mol['file_name'], 'atom_count': mol['atom_count']}
LevelEntry(mol) == [file |-> mol.file_name, atom_count |-> mol.atom_count]

\* level = {'target': {...}, 'similar': [{...} for mol in similar_mols]}
Level(tgt, sims) ==
    [target |-> LevelEntry(tgt),
     similar |-> [i \in 1..Len(sims) |-> LevelEntry(sims[i])]]

\* The call of find_similar_molecules for one candidate target.
SimilarFor(tgt, mols, used) ==
    find_similar_molecules(tgt, mols, SIMILARITY_THRESHOLD, used)

\* A builder that marks only the target as used.
MutMarkUsed(used, tgt, sims) == used \cup {tgt.file_path}

\* used_molecules_paths after a level is built from tgt and sims.
MarkUsed(used, tgt, sims) ==
    used \cup {tgt.file_path} \cup {sims[i].file_path : i \in 1..Len(sims)}

\* A break one level late (> instead of >=).
MutEnoughLevels(lvls, cap) == Len(lvls) > cap

\* if len(game_levels) >= NUM_MOLECULES: break
EnoughLevels(lvls, cap) == Len(lvls) >= cap

\* sorted(molecules, key=lambda x: x['atom_count'])
SortedByAtomCount(mols) == StableSort(mols, AtomCountKey(mols))

InitBuild ==
    /\ \/ /\ input_molecules \in
                 {MoleculesOf(acs) : acs \in SeqsOf(BuildAtomCounts, 0, MaxMols)}
          /\ min_atoms \in Floors
       \/ /\ input_molecules = MoleculesOf(ScenarioAtomCounts)
          /\ min_atoms = DEFAULT_MIN_ATOMS
    /\ num_molecules \in 1..MaxK
    /\ molecules = <<>>
    /\ sorted_molecules = <<>>
    /\ idx = 0
    /\ used_molecules_paths = {}
    /\ game_levels = <<>>
    /\ skipped = {}
    /\ bpc = "start"
    /\ MatcherIdle /\ SelectorIdle /\ MainIdle

\* Lines 227-234: the floor filter and the sort.
BuildStart ==
    /\ bpc = "start"
    /\ molecules' = AboveFloor(input_molecules, min_atoms)
    /\ sorted_molecules' = SortedByAtomCount(molecules')
    /\ idx' = 1
    /\ bpc' = "loop"
    /\ UNCHANGED <<input_molecules, min_atoms, num_molecules,
                   used_molecules_paths, game_levels, skipped>>
    /\ UNCHANGED <<fvars, svars, mvars>>

\* Lines 238-239: the molecule is already used in a level.
SkipUsed ==
    /\ bpc = "loop"
    /\ idx <= Len(sorted_molecules)
    /\ sorted_molecules[idx].file_path \in used_molecules_paths
    /\ idx' = idx + 1
    /\ UNCHANGED <<input_molecules, min_atoms, num_molecules, molecules,
                   sorted_molecules, used_molecules_paths, game_levels, skipped, bpc>>
    /\ UNCHANGED <<fvars, svars, mvars>>

\* Lines 242-251: fewer than 2 similar molecules, the target is skipped.
\* `skipped` records the targets skipped this way.
SkipTarget ==
    /\ bpc = "loop"
    /\ idx <= Len(sorted_molecules)
    /\ sorted_molecules[idx].file_path \notin used_molecules_paths
    /\ Len(SimilarFor(sorted_molecules[idx], molecules, used_molecules_paths)) < 2
    /\ skipped' = skipped \cup {sorted_molecules[idx].file_path}
    /\ idx' = idx + 1
    /\ UNCHANGED <<input_molecules, min_atoms, num_molecules, molecules,
                   sorted_molecules, used_molecules_paths, game_levels, bpc>>
    /\ UNCHANGED <<fvars, svars, mvars>>

\* Lines 242-278: a level is built; the loop breaks at the cap.
AppendLevel ==
    /\ bpc = "loop"
    /\ idx <= Len(sorted_molecules)
    /\ sorted_molecules[idx].file_path \notin used_molecules_paths
    /\ LET target_mol == sorted_molecules[idx]
           sims == SimilarFor(target_mol, molecules, used_molecules_paths)
       IN /\ Len(sims) >= 2
          /\ used_molecules_paths' = MarkUsed(used_molecules_paths, target_mol, sims)
          /\ game_levels' = Append(game_levels, Level(target_mol, sims))
    /\ IF EnoughLevels(game_levels', num_molecules)
       THEN bpc' = "done" /\ idx' = idx
       ELSE bpc' = bpc /\ idx' = idx + 1
    /\ UNCHANGED <<input_molecules, min_atoms, num_molecules, molecules,
                   sorted_molecules, skipped>>
    /\ UNCHANGED <<fvars, svars, mvars>>

\* Line 280: the loop ran out of molecules.
BuildReturn ==
    /\ bpc = "loop"
    /\ idx > Len(sorted_molecules)
    /\ bpc' = "done"
    /\ UNCHANGED <<input_molecules, min_atoms, num_molecules, molecules,
                   sorted_molecules, idx, used_molecules_paths, game_levels, skipped>>
    /\ UNCHANGED <<fvars, svars, mvars>>

NextBuild ==
    \/ BuildStart
    \/ SkipUsed
    \/ SkipTarget
    \/ AppendLevel
    \/ BuildReturn

SpecBuild == InitBuild /\ [][NextBuild]_vars

\* The loop of lines 236-278 from position i on, as one function.
RECURSIVE BuildFrom(_, _, _, _, _, _)
BuildFrom(i, used, lvls, sorted, mols, cap) ==
    IF i > Len(sorted) THEN lvls
    ELSE IF sorted[i].file_path \in used
         THEN BuildFrom(i + 1, used, lvls, sorted, mols, cap)
         ELSE LET sims == SimilarFor(sorted[i], mols, used)
              IN IF Len(sims) < 2
                 THEN BuildFrom(i + 1, used, lvls, sorted, mols, cap)
                 ELSE IF EnoughLevels(Append(lvls, Level(sorted[i], sims)), cap)
                      THEN Append(lvls, Level(sorted[i], sims))
                      ELSE BuildFrom(i + 1, MarkUsed(used, sorted[i], sims),
                                     Append(lvls, Level(sorted[i], sims)),
                                     sorted, mols, cap)

\* prepare_game_dataset as a whole, as main calls it.
prepare_game_dataset(mols, m_atoms, cap) ==
    LET kept == AboveFloor(mols, m_atoms)
    IN BuildFrom(1, {}, <<>>, SortedByAtomCount(kept), kept, cap)

\* The loop step by step and the function as a whole build the same levels.
BuildAgrees ==
    bpc = "done" =>
        game_levels = prepare_game_dataset(input_molecules, min_atoms, num_molecules)

(***************************************************************************)
(* Claims about prepare_game_dataset.  The files of a working set lie in   *)
(* one directory, so a file name stands for its path, and file i is the    *)
(* i-th molecule of the working set.                                       *)
(***************************************************************************)
\* Every reference of the level sequence: <<level, 0>> is the level's target,
\* <<level, p>> its p-th similar molecule.
References ==
    {<<l, p>> : l \in 1..Len(game_levels), p \in 0..2} \cap
    {r \in (1..Len(game_levels)) \X (0..2) :
        r[2] <= Len(game_levels[r[1]].similar)}

FileOf(r) ==
    IF r[2] = 0 THEN game_levels[r[1]].target.file
    ELSE game_levels[r[1]].similar[r[2]].file

\* Files that some level references.
ReferencedFiles == {FileOf(r) : r \in References}

\* Molecules of the input at or above the floor.
AtOrAboveFloor ==
    {i \in 1..Len(input_molecules) : input_molecules[i].atom_count >= min_atoms}

\* C1: across all levels, no two references (target or similar, in the same
\* or in different levels) name the same molecule.
C1_NoMoleculeTwice ==
    \A r1 \in References, r2 \in References :
        r1 # r2 => FileOf(r1) # FileOf(r2)

\* Two levels were built, and the loop passed over a molecule that an
\* earlier level had used.
C1_Witness ==
    /\ bpc = "done"
    /\ Len(game_levels) >= 2
    /\ \E i \in 1..idx - 1 : \E l \in 1..Len(game_levels), p \in 1..2 :
           /\ game_levels[l].similar[p].file = sorted_molecules[i].file_name
           /\ \E l2 \in 1..Len(game_levels) : l2 > l /\
                  \E j \in i + 1..Len(sorted_molecules) :
                      game_levels[l2].target.file = sorted_molecules[j].file_name

\* C3: at every point of the run the level sequence has at most
\* num_molecules levels and at most as many as there are molecules at or
\* above the floor, and its targets are in non-decreasing atom-count order,
\* equal atom counts in the order of the working set.
C3_LengthAndOrder ==
    /\ Len(game_levels) <= num_molecules
    /\ Len(game_levels) <= Cardinality(AtOrAboveFloor)
    /\ \A i \in 1..Len(game_levels), j \in 1..Len(game_levels) :
           i < j =>
               \/ game_levels[i].target.atom_count < game_levels[j].target.atom_count
               \/ /\ game_levels[i].target.atom_count = game_levels[j].target.atom_count
                  /\ game_levels[i].target.file < game_levels[j].target.file

\* The cap stopped the loop (the break of line 278, not the end of the list)
\* after two levels whose targets have the same atom count.
C3_Witness ==
    /\ bpc = "done"
    /\ Len(game_levels) = num_molecules
    /\ Len(game_levels) >= 2
    /\ game_levels[1].target.atom_count = game_levels[2].target.atom_count
    /\ idx <= Len(sorted_molecules)

\* C6: a step that skips a target for lack of similar molecules changes
\* neither the used-set nor the level sequence, and a molecule skipped this
\* way is referenced by no level for the rest of the run.
C6_SkippedNeverUsed ==
    /\ []({Basename(q) : q \in skipped} \cap ReferencedFiles = {}
          /\ skipped \cap used_molecules_paths = {})
    /\ [][skipped' # skipped =>
              /\ used_molecules_paths' = used_molecules_paths
              /\ game_levels' = game_levels]_vars

\* A target was skipped after a level had been built, and the run went on
\* to its end.
C6_Witness ==
    /\ bpc = "done"
    /\ skipped # {}
    /\ Len(game_levels) >= 1
    /\ Len(game_levels) < num_molecules

\* Molecules of the filtered working set that no level has used.
Unused == {m \in Range(molecules) : m.file_path \notin used_molecules_paths}

\* C10: the used-set always holds exactly 3 molecules per level; a target is
\* skipped only when fewer than 3 molecules are unused; after a skip no
\* level is added; the run ends with min(num_molecules, N div 3) levels, N
\* the number of molecules at or above the floor; and the scenario (atom
\* counts 5,5,6,6,7,50,52,55, floor 5, cap 3) ends with 2 levels, the first
\* with a target of 5 atoms and similar molecules of 5 and 6 atoms.
C10_LevelCount ==
    /\ [](/\ Cardinality(used_molecules_paths) = 3 * Len(game_levels)
          /\ skipped # {} => Cardinality(Unused) < 3
          /\ bpc = "done" =>
                 Len(game_levels) =
                     Min(num_molecules, Cardinality(AtOrAboveFloor) \div 3)
          /\ (/\ bpc = "done"
              /\ input_molecules = MoleculesOf(ScenarioAtomCounts)
              /\ min_atoms = 5
              /\ num_molecules = 3) =>
                 /\ Len(game_levels) = 2
                 /\ game_levels[1].target.atom_count = 5
                 /\ game_levels[1].similar[1].atom_count = 5
                 /\ game_levels[1].similar[2].atom_count = 6)
    /\ [][skipped # {} => game_levels' = game_levels]_vars

\* The scenario ran to its end with cap 3: two levels, and targets skipped.
C10_Witness ==
    /\ bpc = "done"
    /\ input_molecules = MoleculesOf(ScenarioAtomCounts)
    /\ min_atoms = 5
    /\ num_molecules = 3
    /\ Len(game_levels) = 2
    /\ skipped # {}

(***************************************************************************)
(* select_representative_molecules, statement by statement.                *)
(***************************************************************************)
\* bins: atom count -> the molecules of that count, in the order of `mols`.
BinsOf(mols) ==
    [c \in {m.atom_count : m \in Range(mols)} |->
        SelectSeq(mols, LAMBDA m : m.atom_count = c)]

\* sorted(bins.keys())
RECURSIVE SortedKeys(_)
SortedKeys(S) ==
    IF S = {} THEN <<>>
    ELSE LET least == CHOOSE c \in S : \A e \in S : c <= e
         IN <<least>> \o SortedKeys(S \ {least})

\* atom_counts.remove(atom_count)
Remove(s, c) == SelectSeq(s, LAMBDA e : e # c)

\* A break one pick late (> instead of >=).
MutSelectedEnough(sel, n) == Len(sel) > n

\* if len(selected_molecules) >= num_to_select: break
SelectedEnough(sel, n) == Len(sel) >= n

\* any(bins.values())
AnyBin(b) == \E c \in DOMAIN b : b[c] # <<>>

InitSelect ==
    /\ sel_input \in {MoleculesOf(acs) : acs \in SeqsOf(SelAtomCounts, 0, MaxSel)}
    /\ num_to_select \in 1..MaxSel
    /\ sel_min_atoms \in Floors
    /\ bins = <<>>
    /\ atom_counts = <<>>
    /\ sweep = <<>>
    /\ pos = 0
    /\ selected_molecules = <<>>
    /\ used_file_paths = {}
    /\ spc = "start"
    /\ MatcherIdle /\ BuilderIdle /\ MainIdle

\* Lines 112-134: the filter, the early return, the sort, the bins.
SelectStart ==
    /\ spc = "start"
    /\ LET kept == AboveFloor(sel_input, sel_min_atoms)
           sorted == StableSort(kept, AtomCountKey(kept))
       IN IF kept = <<>>
          THEN /\ spc' = "done"
               /\ UNCHANGED <<bins, atom_counts>>
          ELSE /\ bins' = BinsOf(sorted)
               /\ atom_counts' = SortedKeys(DOMAIN bins')
               /\ spc' = "while"
    /\ UNCHANGED <<sel_input, num_to_select, sel_min_atoms, sweep, pos,
                   selected_molecules, used_file_paths>>
    /\ UNCHANGED <<fvars, bvars, mvars>>

\* Lines 139-141: the while condition holds; the for loop takes its copy.
WhileEnter ==
    /\ spc = "while"
    /\ Len(selected_molecules) < num_to_select
    /\ atom_counts # <<>>
    /\ sweep' = atom_counts
    /\ pos' = 1
    /\ spc' = "for"
    /\ UNCHANGED <<sel_input, num_to_select, sel_min_atoms, bins, atom_counts,
                   selected_molecules, used_file_paths>>
    /\ UNCHANGED <<fvars, bvars, mvars>>

\* Line 139: the while condition fails.
WhileExit ==
    /\ spc = "while"
    /\ ~(Len(selected_molecules) < num_to_select /\ atom_counts # <<>>)
    /\ spc' = "done"
    /\ UNCHANGED <<sel_input, num_to_select, sel_min_atoms, bins, atom_counts,
                   sweep, pos, selected_molecules, used_file_paths>>
    /\ UNCHANGED <<fvars, bvars, mvars>>

\* Lines 142-144: an empty bin is pruned.
PruneBin ==
    /\ spc = "for"
    /\ pos <= Len(sweep)
    /\ bins[sweep[pos]] = <<>>
    /\ atom_counts' = Remove(atom_counts, sweep[pos])
    /\ pos' = pos + 1
    /\ UNCHANGED <<sel_input, num_to_select, sel_min_atoms, bins, sweep,
                   selected_molecules, used_file_paths, spc>>
    /\ UNCHANGED <<fvars, bvars, mvars>>

\* Lines 147-156: a molecule is popped from the bin and, if new, selected.
PickFromBin ==
    /\ spc = "for"
    /\ pos <= Len(sweep)
    /\ bins[sweep[pos]] # <<>>
    /\ LET molecule == Head(bins[sweep[pos]])
       IN /\ bins' = [bins EXCEPT ![sweep[pos]] = Tail(@)]
          /\ IF molecule.file_path \notin used_file_paths
             THEN /\ selected_molecules' = Append(selected_molecules, molecule)
                  /\ used_file_paths' = used_file_paths \cup {molecule.file_path}
                  /\ IF SelectedEnough(selected_molecules', num_to_select)
                     THEN spc' = "after" /\ pos' = pos
                     ELSE spc' = spc /\ pos' = pos + 1
             ELSE /\ UNCHANGED <<selected_molecules, used_file_paths, spc>>
                  /\ pos' = pos + 1
    /\ UNCHANGED <<sel_input, num_to_select, sel_min_atoms, atom_counts, sweep>>
    /\ UNCHANGED <<fvars, bvars, mvars>>

\* Line 141: the for loop has gone through its copy.
SweepEnd ==
    /\ spc = "for"
    /\ pos > Len(sweep)
    /\ spc' = "after"
    /\ UNCHANGED <<sel_input, num_to_select, sel_min_atoms, bins, atom_counts,
                   sweep, pos, selected_molecules, used_file_paths>>
    /\ UNCHANGED <<fvars, bvars, mvars>>

\* Lines 160-161: every bin is empty, the while loop is left.
AllBinsEmpty ==
    /\ spc = "after"
    /\ ~AnyBin(bins)
    /\ spc' = "done"
    /\ UNCHANGED <<sel_input, num_to_select, sel_min_atoms, bins, atom_counts,
                   sweep, pos, selected_molecules, used_file_paths>>
    /\ UNCHANGED <<fvars, bvars, mvars>>

\* Line 160: some bin is not empty, back to the while condition.
NextSweep ==
    /\ spc = "after"
    /\ AnyBin(bins)
    /\ spc' = "while"
    /\ UNCHANGED <<sel_input, num_to_select, sel_min_atoms, bins, atom_counts,
                   sweep, pos, selected_molecules, used_file_paths>>
    /\ UNCHANGED <<fvars, bvars, mvars>>

NextSelect ==
    \/ SelectStart
    \/ WhileEnter
    \/ WhileExit
    \/ PruneBin
    \/ PickFromBin
    \/ SweepEnd
    \/ AllBinsEmpty
    \/ NextSweep

SpecSelect == InitSelect /\ [][NextSelect]_vars

\* The interpreter runs the function's next statement: it never stops midway.
FairSpecSelect == SpecSelect /\ WF_vars(NextSelect)

(***************************************************************************)
(* Claims about select_representative_molecules.                           *)
(***************************************************************************)
\* Positions of the input at or above the floor.
KeptPositions ==
    {i \in 1..Len(sel_input) : sel_input[i].atom_count >= sel_min_atoms}

\* How many kept molecules of the same atom count come before position i.
RankInBucket(i) ==
    Cardinality({j \in KeptPositions :
        j < i /\ sel_input[j].atom_count = sel_input[i].atom_count})

\* Round-robin order: sweep by sweep, within a sweep by ascending atom count.
PickedBefore(i, j) ==
    \/ RankInBucket(i) < RankInBucket(j)
    \/ /\ RankInBucket(i) = RankInBucket(j)
       /\ sel_input[i].atom_count < sel_input[j].atom_count

\* The round-robin sequence, cut at num_to_select picks.
RoundRobin ==
    [r \in 1..Min(num_to_select, Cardinality(KeptPositions)) |->
        sel_input[CHOOSE i \in KeptPositions :
            Cardinality({j \in KeptPositions : PickedBefore(j, i)}) = r - 1]]

\* C5: the function terminates; what it has selected is at every point a
\* prefix of the round-robin sequence, and on return it is that sequence cut
\* at num_to_select picks: min(num_to_select, n) molecules, none twice, and
\* fewer than num_to_select only when every bin is empty.
C5_RoundRobin ==
    /\ <>(spc = "done")
    /\ [](/\ Len(selected_molecules) <= Len(RoundRobin)
          /\ \A i \in 1..Len(selected_molecules) : selected_molecules[i] = RoundRobin[i]
          /\ spc = "done" =>
                 /\ selected_molecules = RoundRobin
                 /\ Len(selected_molecules)
                        = Min(num_to_select, Cardinality(KeptPositions))
                 /\ \A i \in 1..Len(selected_molecules), j \in 1..Len(selected_molecules) :
                        i # j => selected_molecules[i] # selected_molecules[j]
                 /\ Len(selected_molecules) < num_to_select =>
                        \A c \in DOMAIN bins : bins[c] = <<>>)

\* A return in the second sweep, cut at num_to_select picks with molecules
\* left in the bins.
C5_Witness ==
    /\ spc = "done"
    /\ Len(selected_molecules) = num_to_select
    /\ Len(selected_molecules) >= 3
    /\ selected_molecules[3].atom_count = selected_molecules[1].atom_count
    /\ AnyBin(bins)

(***************************************************************************)
(* main: one run, from the command line to the exit status.  What the run  *)
(* reads from its environment (the argument, the source directory, whether *)
(* a write or a copy succeeds) is chosen when the code reads it.           *)
(* exit_status is -1 while the run is under way.                           *)
(***************************************************************************)
\* int(sys.argv[1])
IntOf(arg) == IF arg = "6" THEN 6 ELSE 0

\* Lines 302-310: the floor the run uses.
FloorOf(args) ==
    IF Len(args) > 0 /\ args[1] \in IntegerArguments
    THEN IntOf(args[1])
    ELSE DEFAULT_MIN_ATOMS

\* collect_molecule_data on an existing directory with entries `entries`:
\* entry i is file i; parse_mol2_file returns None for an unreadable file.
collect_molecule_data(entries, m_atoms) ==
    LET accepted == SelectSeq([i \in 1..Len(entries) |-> i], LAMBDA i :
                        /\ entries[i].mol2
                        /\ entries[i].readable
                        /\ entries[i].atoms >= m_atoms)
    IN [k \in 1..Len(accepted) |->
           Molecule(PRELIMINARY_DB_PATH, accepted[k], entries[accepted[k]].atoms)]

\* A run that goes on with an empty working set.
MutNoMolecules(mols) == FALSE

\* if not all_molecules: return False
NoMolecules(mols) == mols = <<>>

\* Lines 336-339: the first molecule whose base name is `file`.
Resolve(file, mols) ==
    LET hits == SelectSeq(mols, LAMBDA mol : Basename(mol.file_path) = file)
    IN IF hits = <<>> THEN {} ELSE {hits[1].file_path}

\* A copy list that gathers the targets only.
MutCopyPaths(lvls, mols) ==
    UNION {Resolve(lvls[l].target.file, mols) : l \in 1..Len(lvls)}

\* Lines 333-346: molecules_to_copy_paths.
CopyPaths(lvls, mols) ==
    UNION {Resolve(lvls[l].target.file, mols) : l \in 1..Len(lvls)}
    \cup UNION {Resolve(lvls[l].similar[p].file, mols) :
                    l \in 1..Len(lvls), p \in 1..2}

\* Line 349: molecules_to_copy.
MoleculesToCopy(lvls, mols) ==
    SelectSeq(mols, LAMBDA mol : mol.file_path \in CopyPaths(lvls, mols))

InitMain ==
    /\ argv = <<>>
    /\ floor = DEFAULT_MIN_ATOMS
    /\ dir_exists = FALSE
    /\ listing = <<>>
    /\ working_set = <<>>
    /\ levels = <<>>
    /\ to_copy = <<>>
    /\ manifest = [state |-> "none"]
    /\ store_ready = FALSE
    /\ copied = {}
    /\ copy_failed = FALSE
    /\ exit_status = -1
    /\ mpc = "start"
    /\ MatcherIdle /\ BuilderIdle /\ SelectorIdle

\* Lines 301-310: the optional floor argument.
ParseArguments ==
    /\ mpc = "start"
    /\ \E args \in {<<>>} \cup {<<a>> : a \in Arguments} :
           /\ argv' = args
           /\ floor' = FloorOf(args)
    /\ mpc' = "collect"
    /\ UNCHANGED <<dir_exists, listing, working_set, levels, to_copy, manifest,
                   store_ready, copied, copy_failed, exit_status>>
    /\ UNCHANGED <<fvars, bvars, svars>>

\* Lines 314-318 with collect_molecule_data (lines 79-100): the working set,
\* and the return of False when it is empty.
CollectMolecules ==
    /\ mpc = "collect"
    /\ \E exists \in BOOLEAN, entries \in SeqsOf(DirectoryEntries, 0, MaxFiles) :
           /\ dir_exists' = exists
           /\ listing' = IF exists THEN entries ELSE <<>>
           /\ working_set' = IF exists THEN collect_molecule_data(entries, floor)
                             ELSE <<>>
    /\ IF NoMolecules(working_set')
       THEN exit_status' = 1 /\ mpc' = "exit"
       ELSE exit_status' = exit_status /\ mpc' = "select"
    /\ UNCHANGED <<argv, floor, levels, to_copy, manifest, store_ready, copied,
                   copy_failed>>
    /\ UNCHANGED <<fvars, bvars, svars>>

\* Lines 322-325: select_representative_molecules works on a list of its own
\* and its result is only counted in a message.
SelectRepresentatives ==
    /\ mpc = "select"
    /\ mpc' = "build"
    /\ UNCHANGED <<argv, floor, dir_exists, listing, working_set, levels,
                   to_copy, manifest, store_ready, copied, copy_failed, exit_status>>
    /\ UNCHANGED <<fvars, bvars, svars>>

\* Lines 329-349: the levels and the molecules to copy.
BuildLevels ==
    /\ mpc = "build"
    /\ levels' = prepare_game_dataset(working_set, floor, NUM_MOLECULES)
    /\ to_copy' = MoleculesToCopy(levels', working_set)
    /\ mpc' = "write"
    /\ UNCHANGED <<argv, floor, dir_exists, listing, working_set, manifest,
                   store_ready, copied, copy_failed, exit_status>>
    /\ UNCHANGED <<fvars, bvars, svars>>

\* Lines 352-365: the manifest is written, or the write raises.
WriteManifest ==
    /\ mpc = "write"
    /\ \E ok \in BOOLEAN :
           IF ok
           THEN /\ manifest' = [state |-> "written", levels |-> levels,
                                total |-> Len(levels)]
                /\ exit_status' = exit_status
                /\ mpc' = "store"
           ELSE /\ manifest' = [state |-> "failed"]
                /\ exit_status' = 1
                /\ mpc' = "exit"
    /\ UNCHANGED <<argv, floor, dir_exists, listing, working_set, levels,
                   to_copy, store_ready, copied, copy_failed>>
    /\ UNCHANGED <<fvars, bvars, svars>>

\* Lines 286-287 (and 369-373): the target store exists or is created, or
\* creating it raises.
EnsureStore ==
    /\ mpc = "store"
    /\ \E exists \in BOOLEAN, ok \in BOOLEAN :
           IF exists \/ ok
           THEN /\ store_ready' = TRUE
                /\ UNCHANGED <<copy_failed, exit_status>>
                /\ mpc' = "copy"
           ELSE /\ copy_failed' = TRUE
                /\ exit_status' = 1
                /\ mpc' = "exit"
                /\ UNCHANGED store_ready
    /\ UNCHANGED <<argv, floor, dir_exists, listing, working_set, levels,
                   to_copy, manifest, copied>>
    /\ UNCHANGED <<fvars, bvars, svars>>

\* Lines 289-293 (and 369-373): the next file is copied, or the copy raises.
\* `copied` holds the paths written in the target store.
CopyFile ==
    /\ mpc = "copy"
    /\ Cardinality(copied) < Len(to_copy)
    /\ \E ok \in BOOLEAN :
           IF ok
           THEN /\ copied' = copied \cup
                       {Join(TARGET_DB_PATH,
                             Basename(to_copy[Cardinality(copied) + 1].file_path))}
                /\ UNCHANGED <<copy_failed, exit_status, mpc>>
           ELSE /\ copy_failed' = TRUE
                /\ exit_status' = 1
                /\ mpc' = "exit"
                /\ UNCHANGED copied
    /\ UNCHANGED <<argv, floor, dir_exists, listing, working_set, levels,
                   to_copy, manifest, store_ready>>
    /\ UNCHANGED <<fvars, bvars, svars>>

\* Lines 295 and 375-380: every file is copied, main returns True.
Succeed ==
    /\ mpc = "copy"
    /\ Cardinality(copied) = Len(to_copy)
    /\ exit_status' = 0
    /\ mpc' = "exit"
    /\ UNCHANGED <<argv, floor, dir_exists, listing, working_set, levels,
                   to_copy, manifest, store_ready, copied, copy_failed>>
    /\ UNCHANGED <<fvars, bvars, svars>>

Next ==
    \/ ParseArguments
    \/ CollectMolecules
    \/ SelectRepresentatives
    \/ BuildLevels
    \/ WriteManifest
    \/ EnsureStore
    \/ CopyFile
    \/ Succeed

Spec == InitMain /\ [][Next]_vars

(***************************************************************************)
(* Claims about the run as a whole.                                        *)
(***************************************************************************)
\* The floor the command line asks for: its integer argument, else 5.
RequestedFloor ==
    IF argv # <<>> /\ argv[1] \in IntegerArguments THEN IntOf(argv[1]) ELSE 5

\* Nothing can enter the working set: the directory is missing, it holds no
\* .mol2 file, or no .mol2 file parses to a record at or above the floor.
NothingAdmitted ==
    \/ ~dir_exists
    \/ ~\E i \in 1..Len(listing) : listing[i].mol2
    \/ ~\E i \in 1..Len(listing) :
           /\ listing[i].mol2
           /\ listing[i].readable
           /\ listing[i].atoms >= RequestedFloor

\* C7: the run exits with status 0 or 1; the status is 1 exactly when the
\* working set is empty (missing directory, no matching file, no record at or
\* above the floor), the manifest write failed, or the copy failed.  An
\* unreadable record or a non-integer argument is none of these.
C7_ExitStatus ==
    /\ exit_status \in {0, 1} <=> mpc = "exit"
    /\ mpc \notin {"start", "collect"} => (working_set = <<>> <=> NothingAdmitted)
    /\ mpc = "exit" =>
           (exit_status = 1 <=>
                \/ working_set = <<>>
                \/ manifest.state = "failed"
                \/ copy_failed)

\* A run given a non-integer argument, over a directory with an unreadable
\* .mol2 file, that built a level and exited with status 0.
C7_Witness ==
    /\ mpc = "exit"
    /\ exit_status = 0
    /\ argv = <<"abc">>
    /\ \E i \in 1..Len(listing) : listing[i].mol2 /\ ~listing[i].readable
    /\ levels # <<>>

\* Files the written manifest references.
ManifestFiles ==
    {manifest.levels[l].target.file : l \in 1..Len(manifest.levels)}
    \cup {manifest.levels[l].similar[p].file :
              l \in 1..Len(manifest.levels), p \in 1..2}

\* C8: after a run that exits with status 0 the files copied into the target
\* store are exactly the files the manifest's levels reference, each under
\* its base name, 3 per level; nothing is copied and the store is not
\* created before the manifest is written, so a failed manifest write leaves
\* the store untouched.
C8_CopiedFiles ==
    /\ exit_status = 0 =>
           /\ manifest.state = "written"
           /\ manifest.levels = levels
           /\ manifest.total = Len(levels)
           /\ copied = {Join(TARGET_DB_PATH, f) : f \in ManifestFiles}
           /\ \A f \in ManifestFiles :
                  \E i \in 1..Len(working_set) :
                      /\ working_set[i].file_path = Join(PRELIMINARY_DB_PATH, f)
                      /\ working_set[i].file_name = f
           /\ Cardinality(copied) = 3 * Len(manifest.levels)
    /\ (copied # {} \/ store_ready) => manifest.state = "written"
    /\ manifest.state = "failed" => (copied = {} /\ ~store_ready /\ exit_status = 1)

\* A run that exited with status 0 after writing a manifest with a level and
\* copying its files, with a molecule of the working set left out.
C8_Witness ==
    /\ exit_status = 0
    /\ Len(manifest.levels) >= 1
    /\ Cardinality(copied) = 3
    /\ Len(working_set) > 3

=============================================================================
